---- MODULE Spec2Model ----
(***************************************************************************)
(* FAQ answering server: the relevance scorer, the file matcher, the       *)
(* answer extractor (mcp_server/claude_reasoning_engine.py), the content   *)
(* manager (faq_content_manager.py), the query handler                     *)
(* (faq_mcp_server.py) and the analytics logger with its backlog of        *)
(* unanswered questions (mcp_server/analytics_logger.py).                  *)
(*                                                                         *)
(* A text is a sequence of one-character strings.  Scores are rationals    *)
(* [num, den]: the code's floats take the values k/n, k/n + 0.3 and 1.0    *)
(* only, and on those the float comparisons with 0, 0.5, 0.6 and 0.8 agree *)
(* with the exact ones (0.5 + 0.3 rounds to the double 0.8).               *)
(***************************************************************************)
EXTENDS Integers, Sequences, FiniteSets, TLC

VARIABLES
    disk,             \* the *.txt files of faq_directory, in glob order, as parsed
    faq_content,      \* FAQContentManager.faq_content: file name -> Q&A pairs, in insertion order
    query,            \* the query text of the operation under way / last handled
    content,          \* the content text handed to the scorer
    score,            \* the scorer's return value
    analysis_result,  \* the dict _simulate_claude_analysis returns
    extracted,        \* the value _extract_best_answer returns
    response,         \* the dict handle_query returns
    pc,               \* position of the operation under way
    reload,           \* load_all_faqs under way in reload_faqs: its glob result and position
    unanswered_questions,  \* the rows of the table unanswered_questions, by id
    now,              \* datetime.now(), a logical clock
    logger,           \* each log_unanswered_question call under way: position and locals
    question_text,    \* the text handed to the triage functions / to the similarity check
    triage,           \* the values _calculate_priority and _categorize_question return
    existing,         \* the question text of the row the similarity loop is at
    similarity,       \* what one turn of the similarity loop computes
    faq_interactions, \* the rows of the table faq_interactions
    faq_file_stats    \* the rows of the table faq_file_stats

\* the state of the analytics logger (mcp_server/analytics_logger.py)
\* one turn of the loop of _find_similar_question
similarityVars == <<existing, similarity>>

\* the tables log_faq_interaction writes
statsVars == <<faq_interactions, faq_file_stats>>

analyticsVars == <<unanswered_questions, now, logger, question_text, triage,
                   similarityVars, statsVars>>

\* the state of the FAQ server (faq_mcp_server.py)
serverVars == <<disk, faq_content, query, content, score, analysis_result, extracted,
                response, pc, reload>>

vars == <<serverVars, analyticsVars>>

----------------------------------------------------------------------------
(* Characters and texts *)

NL == "\n"

Uppers == <<"A","B","C","D","E","F","G","H","I","J","K","L","M",
            "N","O","P","Q","R","S","T","U","V","W","X","Y","Z">>
Lowers == <<"a","b","c","d","e","f","g","h","i","j","k","l","m",
            "n","o","p","q","r","s","t","u","v","w","x","y","z">>
Digits == <<"0","1","2","3","4","5","6","7","8","9">>

UpperSet == {Uppers[i] : i \in 1..26}
LowerSet == {Lowers[i] : i \in 1..26}
DigitSet == {Digits[i] : i \in 1..10}

IsUpper(c) == c \in UpperSet
IsLower(c) == c \in LowerSet
IsDigit(c) == c \in DigitSet

LowerOf == [c \in UpperSet |-> Lowers[CHOOSE i \in 1..26 : Uppers[i] = c]]
UpperOf == [c \in LowerSet |-> Uppers[CHOOSE i \in 1..26 : Lowers[i] = c]]

\* str.lower() / str.upper() on one character
LowerChar(c) == IF IsUpper(c) THEN LowerOf[c] ELSE c
UpperChar(c) == IF IsLower(c) THEN UpperOf[c] ELSE c

\* str.lower()
Lower(s) == [i \in 1..Len(s) |-> LowerChar(s[i])]

\* the regular expression class \w
WordChars == UpperSet \cup LowerSet \cup DigitSet \cup {"_"}
IsWordChar(c) == c \in WordChars

\* the characters str.strip() removes
IsSpace(c) == c \in {" ", NL, "\t", "\r"}

\* s[i:] and s[:i] with 1-based positions
From(s, i) == SubSeq(s, i, Len(s))

\* str.startswith(p) at position i of s
MatchAt(s, p, i) ==
    /\ i >= 1
    /\ i + Len(p) - 1 <= Len(s)
    /\ \A j \in 1..Len(p) : s[i + j - 1] = p[j]

\* p in s
Contains(s, p) == \E i \in 1..(Len(s) - Len(p) + 1) : MatchAt(s, p, i)

\* str.strip()
Strip(s) ==
    LET keep == {i \in 1..Len(s) : ~IsSpace(s[i])}
    IN  IF keep = {} THEN <<>>
        ELSE SubSeq(s, CHOOSE i \in keep : \A j \in keep : i <= j,
                       CHOOSE i \in keep : \A j \in keep : i >= j)

RECURSIVE SplitFrom(_, _, _, _)
SplitFrom(s, sep, start, i) ==
    IF i + Len(sep) - 1 > Len(s) THEN <<SubSeq(s, start, Len(s))>>
    ELSE IF MatchAt(s, sep, i)
         THEN <<SubSeq(s, start, i - 1)>> \o SplitFrom(s, sep, i + Len(sep), i + Len(sep))
         ELSE SplitFrom(s, sep, start, i + 1)

\* str.split(sep)
Split(s, sep) == SplitFrom(s, sep, 1, 1)

RECURSIVE Join(_, _)
\* sep.join(parts)
Join(parts, sep) ==
    IF parts = <<>> THEN <<>>
    ELSE IF Len(parts) = 1 THEN parts[1]
    ELSE parts[1] \o sep \o Join(Tail(parts), sep)

RECURSIVE ReplaceFrom(_, _, _, _)
ReplaceFrom(s, old, new, i) ==
    IF i > Len(s) THEN <<>>
    ELSE IF MatchAt(s, old, i) THEN new \o ReplaceFrom(s, old, new, i + Len(old))
    ELSE <<s[i]>> \o ReplaceFrom(s, old, new, i + 1)

\* str.replace(old, new), old not empty
Replace(s, old, new) == ReplaceFrom(s, old, new, 1)

\* str.title(): a cased character is upper after an uncased one, lower after a cased one
Title(s) ==
    [i \in 1..Len(s) |->
        IF i > 1 /\ (IsUpper(s[i - 1]) \/ IsLower(s[i - 1]))
        THEN LowerChar(s[i]) ELSE UpperChar(s[i])]

RECURSIVE IntStr(_)
\* str(n), n >= 0
IntStr(n) == IF n < 10 THEN <<Digits[n + 1]>>
             ELSE IntStr(n \div 10) \o <<Digits[(n % 10) + 1]>>

RECURSIVE TokensFrom(_, _, _)
TokensFrom(s, i, cur) ==
    IF i > Len(s) THEN (IF cur = <<>> THEN {} ELSE {cur})
    ELSE IF IsWordChar(s[i]) THEN TokensFrom(s, i + 1, Append(cur, s[i]))
    ELSE (IF cur = <<>> THEN {} ELSE {cur}) \cup TokensFrom(s, i + 1, <<>>)

\* set(re.findall(r"\b\w+\b", s)): the maximal runs of word characters
Words(s) == TokensFrom(s, 1, <<>>)

\* Python's None: a one-element sequence holding no character, so it differs
\* from every text, the empty text included
None == <<"None">>

----------------------------------------------------------------------------
(* Rational scores *)

Rat(n, d) == [num |-> n, den |-> d]
RatGt(a, b) == a.num * b.den > b.num * a.den
RatEq(a, b) == a.num * b.den = b.num * a.den
RatLe(a, b) == ~RatGt(a, b)
RatMin(a, b) == IF RatGt(a, b) THEN b ELSE a
Zero == Rat(0, 1)
One == Rat(1, 1)

\* the exact-phrase boost 0.3, in tenths
PhraseBoostTenths == 3
\* the answer threshold 0.5 and the label thresholds 0.8 and 0.6, in tenths
AnswerThresholdTenths == 5
HighThresholdTenths == 8
MediumThresholdTenths == 6

----------------------------------------------------------------------------
(* ClaudeReasoningEngine._calculate_relevance_score *)

calculate_relevance_score_NoCap(q, c) ==
    LET query_lower == Lower(q)
        content_lower == Lower(c)
        query_words == Words(query_lower)
        content_words == Words(content_lower)
        n == Cardinality(query_words)
        overlap == Cardinality(query_words \cap content_words)
    IN  IF query_words = {} THEN Zero
        ELSE IF Contains(content_lower, query_lower)
             THEN Rat(10 * overlap + PhraseBoostTenths * n, 10 * n)
             ELSE Rat(10 * overlap, 10 * n)

calculate_relevance_score_CaseSensitivePhrase(q, c) ==
    LET query_lower == Lower(q)
        content_lower == Lower(c)
        query_words == Words(query_lower)
        content_words == Words(content_lower)
        n == Cardinality(query_words)
        overlap == Cardinality(query_words \cap content_words)
    IN  IF query_words = {} THEN Zero
        ELSE IF Contains(c, q)
             THEN RatMin(Rat(10 * overlap + PhraseBoostTenths * n, 10 * n), One)
             ELSE RatMin(Rat(10 * overlap, 10 * n), One)

calculate_relevance_score_BoostFirst(q, c) ==
    LET query_lower == Lower(q)
        content_lower == Lower(c)
        query_words == Words(query_lower)
        content_words == Words(content_lower)
        n == Cardinality(query_words)
        overlap == Cardinality(query_words \cap content_words)
    IN  IF Contains(content_lower, query_lower)
        THEN (IF query_words = {} THEN Rat(PhraseBoostTenths, 10)
              ELSE RatMin(Rat(10 * overlap + PhraseBoostTenths * n, 10 * n), One))
        ELSE (IF query_words = {} THEN Zero
              ELSE RatMin(Rat(10 * overlap, 10 * n), One))

calculate_relevance_score(q, c) ==
    LET query_lower == Lower(q)
        content_lower == Lower(c)
        query_words == Words(query_lower)
        content_words == Words(content_lower)
        n == Cardinality(query_words)
        overlap == Cardinality(query_words \cap content_words)
    IN  IF query_words = {} THEN Zero
        ELSE IF Contains(content_lower, query_lower)
             THEN RatMin(Rat(10 * overlap + PhraseBoostTenths * n, 10 * n), One)
             ELSE RatMin(Rat(10 * overlap, 10 * n), One)

----------------------------------------------------------------------------
(* FAQContentManager.get_structured_content_for_claude *)

SectionMark == <<"=", "=", "=", " ">>
TxtSuffix == <<".", "t", "x", "t">>

QA(q, a) == [question |-> q, answer |-> a]
File(n, pairs) == [name |-> n, qa_pairs |-> pairs]

\* filename.replace(".txt", "").replace("_", " ").title()
file_title(filename) == Title(Replace(Replace(filename, TxtSuffix, <<>>), <<"_">>, <<" ">>))

\* f"\n=== {file_title} ({filename}) ==="
HeaderPiece(filename) ==
    <<NL>> \o SectionMark \o file_title(filename) \o <<" ", "(">> \o filename
           \o <<")", " ", "=", "=", "=">>

RECURSIVE EntryPieces(_, _)
\* f"\nQ{i}: {qa['question']}" and f"A{i}: {qa['answer']}" for the pairs from the i-th on
EntryPieces(qa_pairs, i) ==
    IF i > Len(qa_pairs) THEN <<>>
    ELSE << <<NL, "Q">> \o IntStr(i) \o <<":", " ">> \o qa_pairs[i].question,
            <<"A">> \o IntStr(i) \o <<":", " ">> \o qa_pairs[i].answer >>
         \o EntryPieces(qa_pairs, i + 1)

RECURSIVE FormattedPieces(_, _)
FormattedPieces(files, k) ==
    IF k > Len(files) THEN <<>>
    ELSE <<HeaderPiece(files[k].name)>> \o EntryPieces(files[k].qa_pairs, 1)
         \o FormattedPieces(files, k + 1)

\* the string returned for a loaded faq_content
get_structured_content_for_claude(files) == Join(FormattedPieces(files, 1), <<NL>>)

----------------------------------------------------------------------------
(* ClaudeReasoningEngine._extract_best_answer *)

\* line.split(":", 1)[1], for a line that holds a colon
AfterFirstColon(line) ==
    From(line, 1 + CHOOSE i \in 1..Len(line) :
                     line[i] = ":" /\ \A j \in 1..(i - 1) : line[j] # ":")

StartsWith(line, c) == Len(line) >= 1 /\ line[1] = c

\* current_answer and current_question are both non-empty
PairComplete(st) == st.current_answer # <<>> /\ st.current_question # <<>>

SavePair(st) ==
    IF PairComplete(st)
    THEN Append(st.qa_pairs, <<st.current_question, st.current_answer>>)
    ELSE st.qa_pairs

\* one iteration of the loop over content_lines
ParseLine(st, raw) ==
    LET line == Strip(raw)
    IN  IF StartsWith(line, "Q") /\ Contains(line, <<":">>)
        THEN [qa_pairs |-> SavePair(st),
              current_question |-> Strip(AfterFirstColon(line)),
              current_answer |-> <<>>]
        ELSE IF StartsWith(line, "A") /\ Contains(line, <<":">>)
        THEN [st EXCEPT !.current_answer = Strip(AfterFirstColon(line))]
        ELSE IF st.current_answer # <<>> /\ line # <<>> /\ ~StartsWith(line, "Q")
        THEN [st EXCEPT !.current_answer = st.current_answer \o <<" ">> \o line]
        ELSE st

RECURSIVE ParseLines(_, _, _)
ParseLines(content_lines, i, st) ==
    IF i > Len(content_lines) THEN SavePair(st)
    ELSE ParseLines(content_lines, i + 1, ParseLine(st, content_lines[i]))

\* the qa_pairs list built from content_lines
ParsedPairs(content_lines) ==
    ParseLines(content_lines, 1,
               [qa_pairs |-> <<>>, current_question |-> <<>>, current_answer |-> <<>>])

RECURSIVE BestPairLoop_TakeLast(_, _, _, _)
BestPairLoop_TakeLast(qa_pairs, q, i, best) ==
    IF i > Len(qa_pairs) THEN best
    ELSE LET s == calculate_relevance_score(Lower(q), Lower(qa_pairs[i][1]))
         IN  IF ~RatGt(best.best_score, s)
             THEN BestPairLoop_TakeLast(qa_pairs, q, i + 1,
                                        [best_score |-> s, best_answer |-> qa_pairs[i][2]])
             ELSE BestPairLoop_TakeLast(qa_pairs, q, i + 1, best)

RECURSIVE BestPairLoop(_, _, _, _)
\* the loop "for question, answer in qa_pairs" from the i-th pair on
BestPairLoop(qa_pairs, q, i, best) ==
    IF i > Len(qa_pairs) THEN best
    ELSE LET s == calculate_relevance_score(Lower(q), Lower(qa_pairs[i][1]))
         IN  IF RatGt(s, best.best_score)
             THEN BestPairLoop(qa_pairs, q, i + 1,
                               [best_score |-> s, best_answer |-> qa_pairs[i][2]])
             ELSE BestPairLoop(qa_pairs, q, i + 1, best)

extract_best_answer_NoFallback(content_lines, q) ==
    LET qa_pairs == ParsedPairs(content_lines)
        best == BestPairLoop(qa_pairs, q, 1, [best_score |-> Zero, best_answer |-> None])
    IN  IF qa_pairs = <<>> THEN None ELSE best.best_answer

extract_best_answer(content_lines, q) ==
    LET qa_pairs == ParsedPairs(content_lines)
        best == BestPairLoop(qa_pairs, q, 1, [best_score |-> Zero, best_answer |-> None])
    IN  IF qa_pairs = <<>> THEN None
        ELSE IF best.best_answer # None /\ best.best_answer # <<>>
             THEN best.best_answer
             ELSE qa_pairs[1][2]

----------------------------------------------------------------------------
(* ClaudeReasoningEngine._simulate_claude_analysis *)

\* re.search(r"\(([^)]+\.txt)\)", header): the group of the leftmost match, or None.
\* The group holds no ")" and is followed by one, so it is the whole text between
\* a "(" and the first ")" after it; it must end in ".txt" after at least one character.
GroupAt(header, i) ==
    LET closes == {p \in (i + 1)..Len(header) : header[p] = ")"}
        p == CHOOSE x \in closes : \A y \in closes : x <= y
    IN  IF closes = {} THEN None ELSE SubSeq(header, i + 1, p - 1)

MatchesAt(header, i) ==
    /\ header[i] = "("
    /\ GroupAt(header, i) # None
    /\ Len(GroupAt(header, i)) >= Len(TxtSuffix) + 1
    /\ MatchAt(GroupAt(header, i), TxtSuffix,
               Len(GroupAt(header, i)) - Len(TxtSuffix) + 1)

filename_match(header) ==
    LET starts == {i \in 1..Len(header) : MatchesAt(header, i)}
    IN  IF starts = {} THEN None
        ELSE GroupAt(header, CHOOSE i \in starts : \A j \in starts : i <= j)

NoMatch == [best_match_file |-> None, best_match_score |-> Zero, best_answer |-> None,
            reasoning |-> "empty"]

\* one iteration of the loop over file_sections[1:]
ScanSection(best, section, query_lower) ==
    LET lines == Split(section, <<NL>>)
        header == lines[1]
        filename == filename_match(header)
        section_content == Lower(Join(Tail(lines), <<NL>>))
        s == calculate_relevance_score(query_lower, section_content)
    IN  IF Strip(section) = <<>> THEN best
        ELSE IF filename = None THEN best
        ELSE IF RatGt(s, best.best_match_score)
             THEN [best_match_file |-> filename, best_match_score |-> s,
                   best_answer |-> extract_best_answer(Tail(lines), query_lower),
                   reasoning |-> "found"]
             ELSE best

RECURSIVE ScanSections(_, _, _, _)
ScanSections(sections, k, best, query_lower) ==
    IF k > Len(sections) THEN best
    ELSE ScanSections(sections, k + 1, ScanSection(best, sections[k], query_lower),
                      query_lower)

RelevanceLabel_HighAtLeast(s) ==
    IF ~RatGt(Rat(HighThresholdTenths, 10), s) THEN "high"
    ELSE IF RatGt(s, Rat(MediumThresholdTenths, 10)) THEN "medium"
    ELSE "low"

\* "high" if best_match_score > 0.8 else "medium" if best_match_score > 0.6 else "low"
RelevanceLabel(s) ==
    IF RatGt(s, Rat(HighThresholdTenths, 10)) THEN "high"
    ELSE IF RatGt(s, Rat(MediumThresholdTenths, 10)) THEN "medium"
    ELSE "low"

GoodEnough_AtLeast(s) == ~RatGt(Rat(AnswerThresholdTenths, 10), s)

\* best_match_score > 0.5
GoodEnough(s) == RatGt(s, Rat(AnswerThresholdTenths, 10))

\* The returned dict.  "analysis" is the reasoning text: which of the two messages
\* it is, and the score it quotes.
simulate_claude_analysis(q, faq_text) ==
    LET query_lower == Lower(q)
        file_sections == Split(faq_text, SectionMark)
        best == ScanSections(Tail(file_sections), 1, NoMatch, query_lower)
    IN  IF GoodEnough(best.best_match_score)
        THEN [analysis |-> [text |-> best.reasoning, score |-> best.best_match_score],
              best_match_file |-> best.best_match_file,
              relevance_score |-> RelevanceLabel(best.best_match_score),
              decision |-> "ANSWER",
              answer |-> best.best_answer]
        ELSE [analysis |-> [text |-> "not_found", score |-> best.best_match_score],
              best_match_file |-> best.best_match_file,
              relevance_score |-> "low",
              decision |-> "NO_ANSWER",
              answer |-> None]

----------------------------------------------------------------------------
(* FAQContentManager.load_all_faqs and handle_query *)

\* self.faq_content after load_all_faqs: the files whose parse gave at least one
\* pair, in glob order
load_all_faqs(files) == SelectSeq(files, LAMBDA f : f.qa_pairs # <<>>)

NotRun == [analysis |-> [text |-> "not_run", score |-> Zero],
           best_match_file |-> None, relevance_score |-> "none",
           decision |-> "none", answer |-> None]

\* A returned dict; a key the dict does not hold is None here
Response(st, msg, ans, src, why) ==
    [status |-> st, message |-> msg, answer |-> ans, source_file |-> src, reasoning |-> why]

\* format_reasoning_for_user(result): which of its two sentences, and the analysis it quotes
Reasoning(k, result) == [kind |-> k, analysis |-> result.analysis]
NoReasoning == Reasoning("absent", NotRun)

NoResponse == Response("none", "", None, None, NoReasoning)

EmptyQueryError == Response("error", "Query cannot be empty", None, None, NoReasoning)
NoContentError == Response("error", "No FAQ content available", None, None, NoReasoning)
\* the dict of the except branch
ProcessingError == Response("error", "Error processing query", None, None, NoReasoning)

\* a query that is no str and is not falsy (a JSON number in the tool arguments):
\* `not query` is False and query.strip() raises AttributeError
NonTextQuery == <<"<int>">>

\* not query or not query.strip()
IsBlank(q) == q = <<>> \/ Strip(q) = <<>>

FormatResponse_NoSource(result) ==
    IF result.decision = "ANSWER"
    THEN Response("success", "", result.answer, None, Reasoning("found", result))
    ELSE Response("no_answer", "I cannot answer this question", None, None,
                  Reasoning("could_not_find", result))

\* the response built from analysis_result
FormatResponse(result) ==
    IF result.decision = "ANSWER"
    THEN Response("success", "", result.answer, result.best_match_file,
                  Reasoning("found", result))
    ELSE Response("no_answer", "I cannot answer this question", None, None,
                  Reasoning("could_not_find", result))

\* handle_query(q) with faq_content = fc and the directory holding `files`:
\* the faq_content it leaves, the analysis it ran (NotRun if none) and its response
handle_query_LoadFirst(q, fc, files) ==
    LET loaded == IF fc = <<>> THEN load_all_faqs(files) ELSE fc
        result == simulate_claude_analysis(q, get_structured_content_for_claude(loaded))
    IN  IF q = NonTextQuery
        THEN [faq_content |-> loaded, analysis_result |-> NotRun, response |-> ProcessingError]
        ELSE IF IsBlank(q)
        THEN [faq_content |-> loaded, analysis_result |-> NotRun, response |-> EmptyQueryError]
        ELSE IF loaded = <<>>
        THEN [faq_content |-> loaded, analysis_result |-> NotRun, response |-> NoContentError]
        ELSE [faq_content |-> loaded, analysis_result |-> result,
              response |-> FormatResponse(result)]

handle_query(q, fc, files) ==
    LET loaded == IF fc = <<>> THEN load_all_faqs(files) ELSE fc
        result == simulate_claude_analysis(q, get_structured_content_for_claude(loaded))
    IN  IF q = NonTextQuery
        THEN [faq_content |-> fc, analysis_result |-> NotRun, response |-> ProcessingError]
        ELSE IF IsBlank(q)
        THEN [faq_content |-> fc, analysis_result |-> NotRun, response |-> EmptyQueryError]
        ELSE IF loaded = <<>>
        THEN [faq_content |-> loaded, analysis_result |-> NotRun, response |-> NoContentError]
        ELSE [faq_content |-> loaded, analysis_result |-> result,
              response |-> FormatResponse(result)]

\* reload_faqs(): the faq_content it leaves and its response
reload_faqs(fc, files) ==
    [faq_content |-> load_all_faqs(files),
     response |-> [status |-> "success", message |-> "FAQ content reloaded successfully",
                   files_loaded |-> Len(load_all_faqs(files)),
                   files_changed |-> Len(load_all_faqs(files)) - Len(fc)]]

\* no call of _extract_best_answer made
NotExtracted == [section |-> 0, answer |-> None]

----------------------------------------------------------------------------
(* AnalyticsLogger: text similarity (_normalize_text, _find_similar_question) *)

\* the 70% similarity threshold, in tenths
SimilarityThresholdTenths == 7

\* re.sub(r"[^a-zA-Z0-9\s]", "", s)
RemoveSpecial(s) ==
    SelectSeq(s, LAMBDA c : IsUpper(c) \/ IsLower(c) \/ IsDigit(c) \/ IsSpace(c))

RECURSIVE FieldsFrom(_, _, _)
FieldsFrom(s, i, cur) ==
    IF i > Len(s) THEN (IF cur = <<>> THEN <<>> ELSE <<cur>>)
    ELSE IF IsSpace(s[i])
         THEN (IF cur = <<>> THEN <<>> ELSE <<cur>>) \o FieldsFrom(s, i + 1, <<>>)
         ELSE FieldsFrom(s, i + 1, Append(cur, s[i]))

\* str.split() without a separator: the runs of non-whitespace characters
SplitWhitespace(s) == FieldsFrom(s, 1, <<>>)

normalize_text_CaseKept(text) == Join(SplitWhitespace(RemoveSpecial(text)), <<" ">>)

\* _normalize_text(text)
normalize_text(text) == Join(SplitWhitespace(RemoveSpecial(Lower(text))), <<" ">>)

\* set(self._normalize_text(text).split())
WordSetOf(text) ==
    LET fields == SplitWhitespace(normalize_text(text))
    IN  {fields[i] : i \in 1..Len(fields)}

Jaccard_OverQuestion(a, b) ==
    IF Cardinality(a) > 0
    THEN Rat(Cardinality(a \cap b), Cardinality(a))
    ELSE Zero

\* intersection / union of two word sets, 0 where the code computes no similarity
\* (union = 0)
Jaccard(a, b) ==
    IF Cardinality(a \cup b) > 0
    THEN Rat(Cardinality(a \cap b), Cardinality(a \cup b))
    ELSE Zero

IsSimilar_AtLeast(question_words, existing_words) ==
    /\ Cardinality(question_words \cup existing_words) > 0
    /\ ~RatGt(Rat(SimilarityThresholdTenths, 10), Jaccard(question_words, existing_words))

\* union > 0 and similarity > 0.7
IsSimilar(question_words, existing_words) ==
    /\ Cardinality(question_words \cup existing_words) > 0
    /\ RatGt(Jaccard(question_words, existing_words), Rat(SimilarityThresholdTenths, 10))

\* a row of unanswered_questions (the columns the logger reads or writes)
Item(i, q, f, t, st, pr, cat) ==
    [id |-> i, question |-> q, frequency |-> f, last_asked |-> t, status |-> st,
     priority |-> pr, category |-> cat]

\* no row: what _find_similar_question returns as None
NoItem == Item(0, <<>>, 0, 0, "none", "none", "none")

OpenStatuses == {"pending", "in_progress"}

----------------------------------------------------------------------------
(* AnalyticsLogger: triage (_calculate_priority, _categorize_question) *)

urgent_keywords ==
    << <<"u", "r", "g", "e", "n", "t">>, <<"e", "m", "e", "r", "g", "e", "n", "c", "y">>,
       <<"c", "r", "i", "t", "i", "c", "a", "l">>, <<"b", "r", "o", "k", "e", "n">>,
       <<"d", "o", "w", "n">>, <<"e", "r", "r", "o", "r">>,
       <<"f", "a", "i", "l", "e", "d">>, <<"c", "r", "a", "s", "h">> >>

high_keywords ==
    << <<"b", "i", "l", "l", "i", "n", "g">>, <<"p", "a", "y", "m", "e", "n", "t">>,
       <<"s", "u", "b", "s", "c", "r", "i", "p", "t", "i", "o", "n">>,
       <<"a", "c", "c", "o", "u", "n", "t">>, <<"l", "o", "g", "i", "n">>,
       <<"a", "c", "c", "e", "s", "s">>, <<"s", "e", "c", "u", "r", "i", "t", "y">> >>

medium_keywords ==
    << <<"d", "e", "v", "i", "c", "e">>, <<"s", "y", "n", "c">>,
       <<"c", "o", "n", "n", "e", "c", "t", "i", "o", "n">>, <<"s", "e", "t", "u", "p">>,
       <<"i", "n", "s", "t", "a", "l", "l">>, <<"u", "p", "d", "a", "t", "e">> >>

\* any(keyword in s for keyword in keywords)
ContainsAny(s, keywords) == \E k \in 1..Len(keywords) : Contains(s, keywords[k])

calculate_priority_HighFirst(text) ==
    LET question_lower == Lower(text)
    IN  IF ContainsAny(question_lower, high_keywords) THEN "high"
        ELSE IF ContainsAny(question_lower, urgent_keywords) THEN "urgent"
        ELSE IF ContainsAny(question_lower, medium_keywords) THEN "medium"
        ELSE "low"

\* _calculate_priority(text)
calculate_priority(text) ==
    LET question_lower == Lower(text)
    IN  IF ContainsAny(question_lower, urgent_keywords) THEN "urgent"
        ELSE IF ContainsAny(question_lower, high_keywords) THEN "high"
        ELSE IF ContainsAny(question_lower, medium_keywords) THEN "medium"
        ELSE "low"

\* the dict categories, in its insertion order
categories ==
    << [category |-> "account_management",
        keywords |-> << <<"a", "c", "c", "o", "u", "n", "t">>, <<"p", "r", "o", "f", "i", "l", "e">>,
                       <<"l", "o", "g", "i", "n">>, <<"p", "a", "s", "s", "w", "o", "r", "d">>,
                       <<"s", "i", "g", "n", "u", "p">>, <<"r", "e", "g", "i", "s", "t", "e", "r">> >>],
       [category |-> "billing_payments",
        keywords |-> << <<"b", "i", "l", "l", "i", "n", "g">>, <<"p", "a", "y", "m", "e", "n", "t">>,
                       <<"s", "u", "b", "s", "c", "r", "i", "p", "t", "i", "o", "n">>,
                       <<"p", "l", "a", "n">>, <<"c", "h", "a", "r", "g", "e">>,
                       <<"i", "n", "v", "o", "i", "c", "e">> >>],
       [category |-> "technical_issues",
        keywords |-> << <<"e", "r", "r", "o", "r">>, <<"b", "u", "g">>, <<"b", "r", "o", "k", "e", "n">>,
                       <<"f", "i", "x">>, <<"i", "s", "s", "u", "e">>,
                       <<"p", "r", "o", "b", "l", "e", "m">>, <<"c", "r", "a", "s", "h">> >>],
       [category |-> "device_setup",
        keywords |-> << <<"d", "e", "v", "i", "c", "e">>, <<"s", "e", "t", "u", "p">>,
                       <<"i", "n", "s", "t", "a", "l", "l">>, <<"c", "o", "n", "n", "e", "c", "t">>,
                       <<"s", "y", "n", "c">>, <<"p", "a", "i", "r">> >>],
       [category |-> "mobile_app",
        keywords |-> << <<"a", "p", "p">>, <<"m", "o", "b", "i", "l", "e">>,
                       <<"a", "n", "d", "r", "o", "i", "d">>, <<"i", "o", "s">>,
                       <<"p", "h", "o", "n", "e">> >>],
       [category |-> "privacy_security",
        keywords |-> << <<"p", "r", "i", "v", "a", "c", "y">>, <<"s", "e", "c", "u", "r", "i", "t", "y">>,
                       <<"d", "a", "t", "a">>, <<"e", "n", "c", "r", "y", "p", "t", "i", "o", "n">>,
                       <<"s", "a", "f", "e">> >>],
       [category |-> "general",
        keywords |-> <<  >>] >>

RECURSIVE FirstCategory_WholeWords(_, _)
FirstCategory_WholeWords(question_lower, k) ==
    IF k > Len(categories) THEN "general"
    ELSE IF \E j \in 1..Len(categories[k].keywords) :
                categories[k].keywords[j] \in Words(question_lower)
         THEN categories[k].category
         ELSE FirstCategory_WholeWords(question_lower, k + 1)

RECURSIVE FirstCategory(_, _)
\* the loop over categories.items(): the first category with a keyword in the text
FirstCategory(question_lower, k) ==
    IF k > Len(categories) THEN "general"
    ELSE IF ContainsAny(question_lower, categories[k].keywords)
         THEN categories[k].category
         ELSE FirstCategory(question_lower, k + 1)

\* _categorize_question(text)
categorize_question(text) == FirstCategory(Lower(text), 1)

\* the triage functions not called
NotTriaged == [priority |-> "none", category |-> "none"]

----------------------------------------------------------------------------
(* AnalyticsLogger.log_unanswered_question: the idle values *)

\* the calls of log_unanswered_question that may be under way at once
Loggers == {"w1", "w2"}

\* the similarity loop not run
NotCompared == [done |-> FALSE, value |-> Zero, similar |-> FALSE]

\* no call under way; returned is what the last call returned
IdleLogger ==
    [pc |-> "idle", question |-> <<>>, similar_question |-> NoItem,
     lookup_failed |-> FALSE, returned |-> "none"]

InitAnalytics ==
    /\ unanswered_questions = <<>>
    /\ now = 1
    /\ logger = [w \in Loggers |-> IdleLogger]
    /\ question_text = <<>>
    /\ triage = NotTriaged
    /\ existing = <<>>
    /\ similarity = NotCompared
    /\ faq_interactions = <<>>
    /\ faq_file_stats = <<>>

\* no load_all_faqs under way in reload_faqs
ReloadIdle == [stage |-> "idle", faq_files |-> <<>>, next |-> 0, old_count |-> 0]

----------------------------------------------------------------------------
(* Bounds and input sets *)

\* the most files the directory and the knowledge base hold
MaxFiles == 2

\* "f1.txt", "f2.txt", ... and names with parentheses, "f(1).txt" and "f(1.txt"
NameOf(i) == <<"f">> \o IntStr(i) \o TxtSuffix
ParenNameOf(i) == <<"f", "(">> \o IntStr(i) \o <<")">> \o TxtSuffix
OpenParenNameOf(i) == <<"f", "(">> \o IntStr(i) \o TxtSuffix

\* the forms a name with parentheses takes
NameForms == { "closed", "open" }

E1 == QA(<<"a", " ", "b", " ", "c">>, <<"x">>)
E2 == QA(<<"a">>, <<"d">>)
E3 == QA(<<"x", "a", " ", "b", " ", "c", " ", "d", " ", "e", "x">>, <<"z">>)

\* the Q&A lists a parsed file may hold
FilePool == { <<E1>>, <<E1, E2>>, <<E2, E1>>, <<E3>> }

\* the queries put to the matcher
MatchQueries ==
    { <<>>, <<"?">>,
      <<"a">>, <<"A", " ", "B", "?">>, <<"a", " ", "w">>, <<"a", " ", "b", " ", "w">>,
      <<"a", " ", "b", " ", "c", " ", "d", " ", "e">>,
      <<"d">>, <<"q", "1">> }

\* the knowledge bases: up to MaxFiles files named by position, at most one of
\* them (the bad-th) under a name with parentheses, of the given form
KBOf(pairs, bad, form) ==
    [k \in 1..Len(pairs) |->
        File(IF k # bad THEN NameOf(k)
             ELSE IF form = "closed" THEN ParenNameOf(k) ELSE OpenParenNameOf(k),
             pairs[k])]

KnowledgeBases ==
    UNION { { KBOf(pairs, bad, form) :
                  pairs \in [1..n -> FilePool], bad \in 0..n, form \in NameForms } :
            n \in 0..MaxFiles }

\* the texts put to the scorer
ScoreQueries ==
    { <<>>, <<"?">>, <<" ", "a">>,
      <<"a">>, <<"a", "b">>, <<"a", " ", "b">>, <<"A", " ", "b">>,
      <<"a", ",", " ", "b">>, <<"a", " ", "b", " ", "c">>, <<"a", " ", "b", " ", "c", " ", "d">> }

ScoreContents ==
    { <<>>, <<"a">>, <<"a", "b">>, <<"a", " ", "b">>, <<"b", " ", "a">>, <<"A", " ", "B">>,
      <<"a", " ", "b", "c">>, <<"x", "a", " ", "b", " ", "c">>,
      <<"x", "a", " ", "b", " ", "c", " ", "d", "x">>,
      <<"a", ",", " ", "b">>, <<"q", "1", ":", " ", "a", " ", "b", " ", "c", " ", "d">>,
      <<"a", "?">> }

----------------------------------------------------------------------------
(* The scorer alone: one call of _calculate_relevance_score *)

InitScore ==
    /\ reload = ReloadIdle
    /\ InitAnalytics
    /\ query \in ScoreQueries
    /\ content \in ScoreContents
    /\ score = Zero
    /\ pc = "start"
    /\ disk = <<>>
    /\ faq_content = <<>>
    /\ analysis_result = NotRun
    /\ extracted = NotExtracted
    /\ response = NoResponse

Score ==
    /\ pc = "start"
    /\ score' = calculate_relevance_score(query, content)
    /\ pc' = "scored"
    /\ UNCHANGED <<disk, faq_content, query, content, analysis_result, extracted, response, reload, analyticsVars>>

NextScore == Score

SpecScore == InitScore /\ [][NextScore]_vars

----------------------------------------------------------------------------
(* The matcher alone: analyze_query_against_faqs on a loaded knowledge base *)

\* file_sections[1:] as _simulate_claude_analysis cuts them out of the formatted content
SectionsOf(files) == Tail(Split(get_structured_content_for_claude(files), SectionMark))

InitMatch ==
    /\ reload = ReloadIdle
    /\ InitAnalytics
    /\ faq_content \in KnowledgeBases
    /\ query \in MatchQueries
    /\ pc = "start"
    /\ disk = faq_content
    /\ content = <<>>
    /\ score = Zero
    /\ analysis_result = NotRun
    /\ extracted = NotExtracted
    /\ response = NoResponse

\* analyze_query_against_faqs(query, get_structured_content_for_claude())
Analyze ==
    /\ pc = "start"
    /\ analysis_result' =
           simulate_claude_analysis(query, get_structured_content_for_claude(faq_content))
    /\ pc' = "analyzed"
    /\ UNCHANGED <<disk, faq_content, query, content, score, extracted, response, reload, analyticsVars>>

\* _extract_best_answer(lines[1:], query_lower) on the k-th section
Extract(k) ==
    LET file_sections == SectionsOf(faq_content)
    IN  /\ pc = "start"
        /\ k \in 1..Len(file_sections)
        /\ extracted' = [section |-> k,
                         answer |-> extract_best_answer(
                                        Tail(Split(file_sections[k], <<NL>>)), Lower(query))]
        /\ pc' = "extracted"
        /\ UNCHANGED <<disk, faq_content, query, content, score, analysis_result, response, reload, analyticsVars>>

NextMatch == Analyze \/ \E k \in 1..MaxFiles : Extract(k)

SpecMatch == InitMatch /\ [][NextMatch]_vars

----------------------------------------------------------------------------
(* The server: handle_query and reload_faqs against a directory that changes *)

\* the Q&A lists a file of the directory parses to (none for a file without a pair)
DiskPool == { <<>>, <<E2>> }

ServerQueries == { <<>>, <<" ">>, <<"a">>, <<"a", " ", "w">>, <<"w">>, NonTextQuery }

HasFile(files, n) == \E i \in 1..Len(files) : files[i].name = n

Init ==
    /\ reload = ReloadIdle
    /\ InitAnalytics
    /\ disk = <<>>
    /\ faq_content = load_all_faqs(disk)
    /\ query = <<>>
    /\ content = <<>>
    /\ score = Zero
    /\ analysis_result = NotRun
    /\ extracted = NotExtracted
    /\ response = NoResponse
    /\ pc = "idle"

\* a file is created in, or rewritten in, the directory
WriteFile(k, pairs) ==
    /\ pc = "idle"
    /\ IF HasFile(disk, NameOf(k))
       THEN disk' = [i \in 1..Len(disk) |->
                        IF disk[i].name = NameOf(k) THEN File(NameOf(k), pairs) ELSE disk[i]]
       ELSE disk' = Append(disk, File(NameOf(k), pairs))
    /\ disk' # disk
    /\ UNCHANGED <<faq_content, query, content, score, analysis_result, extracted, response, pc, reload, analyticsVars>>

\* a file is deleted from the directory
RemoveFile(k) ==
    /\ pc = "idle"
    /\ HasFile(disk, NameOf(k))
    /\ disk' = SelectSeq(disk, LAMBDA f : f.name # NameOf(k))
    /\ UNCHANGED <<faq_content, query, content, score, analysis_result, extracted, response, pc, reload, analyticsVars>>

HandleQuery_DuringReload(q) ==
    /\ pc \in {"idle", "reloading"}
    /\ query' = q
    /\ faq_content' = handle_query(q, faq_content, disk).faq_content
    /\ analysis_result' = handle_query(q, faq_content, disk).analysis_result
    /\ response' = handle_query(q, faq_content, disk).response
    /\ pc' = "responded"
    /\ UNCHANGED <<disk, content, score, extracted, reload, analyticsVars>>

\* handle_query(q), from its first statement to its return: no await in it
\* gives the event loop to another handler
HandleQuery(q) ==
    /\ pc = "idle"
    /\ query' = q
    /\ faq_content' = handle_query(q, faq_content, disk).faq_content
    /\ analysis_result' = handle_query(q, faq_content, disk).analysis_result
    /\ response' = handle_query(q, faq_content, disk).response
    /\ pc' = "responded"
    /\ UNCHANGED <<disk, content, score, extracted, reload, analyticsVars>>

ReloadStart_KeepOld ==
    /\ pc = "idle"
    /\ reload' = [stage |-> "loading", faq_files |-> disk, next |-> 1,
                  old_count |-> Len(faq_content)]
    /\ faq_content' = faq_content
    /\ pc' = "reloading"
    /\ UNCHANGED <<disk, query, content, score, analysis_result, extracted, response,
                   analyticsVars>>

\* reload_faqs() up to the first statement of load_all_faqs: old_count is taken,
\* self.faq_content = {} and the directory is listed
ReloadStart ==
    /\ pc = "idle"
    /\ reload' = [stage |-> "loading", faq_files |-> disk, next |-> 1,
                  old_count |-> Len(faq_content)]
    /\ faq_content' = <<>>
    /\ pc' = "reloading"
    /\ UNCHANGED <<disk, query, content, score, analysis_result, extracted, response,
                   analyticsVars>>

\* one turn of the loop over faq_files: the file is parsed and, if it has a pair,
\* entered in self.faq_content
ReloadLoadFile ==
    /\ pc = "reloading"
    /\ reload.next <= Len(reload.faq_files)
    /\ faq_content' = IF reload.faq_files[reload.next].qa_pairs # <<>>
                      THEN Append(faq_content, reload.faq_files[reload.next])
                      ELSE faq_content
    /\ reload' = [reload EXCEPT !.next = @ + 1]
    /\ UNCHANGED <<disk, query, content, score, analysis_result, extracted, response, pc,
                   analyticsVars>>

\* the loop is over: load_all_faqs returns and reload_faqs builds its response
ReloadFaqs ==
    /\ pc = "reloading"
    /\ reload.next > Len(reload.faq_files)
    /\ response' = [status |-> "success", message |-> "FAQ content reloaded successfully",
                    files_loaded |-> Len(faq_content),
                    files_changed |-> Len(faq_content) - reload.old_count]
    /\ reload' = ReloadIdle
    /\ pc' = "reloaded"
    /\ UNCHANGED <<disk, faq_content, query, content, score, analysis_result, extracted,
                   analyticsVars>>

\* the response has gone to the caller
Return ==
    /\ pc \in {"responded", "reloaded"}
    /\ pc' = "idle"
    /\ query' = <<>>
    /\ analysis_result' = NotRun
    /\ response' = NoResponse
    /\ UNCHANGED <<disk, faq_content, content, score, extracted, reload, analyticsVars>>

Next ==
    \/ \E k \in 1..MaxFiles, pairs \in DiskPool : WriteFile(k, pairs)
    \/ \E k \in 1..MaxFiles : RemoveFile(k)
    \/ \E q \in ServerQueries : HandleQuery(q)
    \/ ReloadStart
    \/ ReloadLoadFile
    \/ ReloadFaqs
    \/ Return

Spec == Init /\ [][Next]_vars

----------------------------------------------------------------------------
(* The backlog: log_unanswered_question calls against the table               *)
(* unanswered_questions, with the external workflow changing the statuses.    *)
(* _find_similar_question reads in one session and log_unanswered_question    *)
(* writes in another, so other writers of the database come in between.  The  *)
(* query has no ORDER BY: the rows come in any order.                         *)

\* the most calls of log_unanswered_question made
MaxLogs == 3

\* the most status changes the workflow makes
MaxStatusChanges == 2

P7 == <<"a", "p", "p", " ", "b", " ", "c", " ", "d", " ", "e", " ", "f", " ", "g">>
\* the words of P7 and "h", in capitals, with punctuation and a double space
P8 == <<"A", ".", "p", "p", " ", "b", " ", " ", "c", " ", "d", " ", "e", " ", "f", " ",
        "G", " ", "h", "?">>
P10 == P7 \o <<" ", "h", " ", "i", " ", "d", "o", "w", "n">>

\* the questions logged
QuestionPool == { P7, P8, P10 }

\* the word sets and the triage of the questions logged, computed once
WordSets == [text \in QuestionPool |-> WordSetOf(text)]
WordSet(text) == WordSets[text]

Triage ==
    [text \in QuestionPool |->
        [priority |-> calculate_priority(text), category |-> categorize_question(text)]]

RECURSIVE FirstSimilar(_, _, _)
\* the loop over existing_questions: the first row above the threshold is returned
FirstSimilar(question_words, existing_questions, i) ==
    IF i > Len(existing_questions) THEN NoItem
    ELSE IF IsSimilar(question_words, WordSet(existing_questions[i].question))
         THEN existing_questions[i]
         ELSE FirstSimilar(question_words, existing_questions, i + 1)

\* _find_similar_question(text) when the query gave the rows existing_questions
find_similar_question(text, existing_questions) ==
    FirstSimilar(WordSet(text), existing_questions, 1)

\* session.merge(similar_question) after frequency += 1 and last_asked = now: the
\* row of that id takes every column of the detached object as it was read
MergeRow(rows, similar_question, t) ==
    [i \in 1..Len(rows) |->
        IF rows[i].id = similar_question.id
        THEN [similar_question EXCEPT !.frequency = @ + 1, !.last_asked = t]
        ELSE rows[i]]

\* session.add(UnansweredQuestion(question=text, frequency=1, ..., status="pending"))
AddRow(rows, text, t) ==
    Append(rows, Item(Len(rows) + 1, text, 1, t, "pending",
                      Triage[text].priority, Triage[text].category))

\* the rows with status pending or in_progress, in table order
OpenRows(rows) == SelectSeq(rows, LAMBDA r : r.status \in OpenStatuses)

\* the orders in which .all() may return the rows
ScanOrders(rows) ==
    { [i \in 1..Len(rows) |-> rows[p[i]]] :
        p \in { f \in [1..Len(rows) -> 1..Len(rows)] :
                  \A i, j \in 1..Len(rows) : f[i] = f[j] => i = j } }

LogsMade == (now - 1) + Cardinality({w \in Loggers : logger[w].pc = "scanned"})

\* w may start a call: the calls are alike, so the second one is only taken
\* while the first is under way
MayStart(w) ==
    /\ logger[w].pc = "idle"
    /\ LogsMade < MaxLogs
    /\ w = "w1" \/ logger["w1"].pc # "idle"

\* the status changes the workflow has made, as far as the statuses show
RECURSIVE StatusChanges(_, _)
StatusChanges(rows, i) ==
    IF i > Len(rows) THEN 0
    ELSE StatusChanges(rows, i + 1)
         + (IF rows[i].status = "pending" THEN 0
            ELSE IF rows[i].status = "answered" THEN 2 ELSE 1)

InitBacklog ==
    /\ InitAnalytics
    /\ reload = ReloadIdle
    /\ disk = <<>>
    /\ faq_content = <<>>
    /\ query = <<>>
    /\ content = <<>>
    /\ score = Zero
    /\ analysis_result = NotRun
    /\ extracted = NotExtracted
    /\ response = NoResponse
    /\ pc = "idle"

\* similar_question = await self._find_similar_question(question_text)
FindSimilar(w, text, existing_questions) ==
    /\ MayStart(w)
    /\ existing_questions \in ScanOrders(OpenRows(unanswered_questions))
    /\ logger' = [logger EXCEPT ![w] =
           [pc |-> "scanned", question |-> text,
            similar_question |-> find_similar_question(text, existing_questions),
            lookup_failed |-> FALSE, returned |-> "none"]]
    /\ UNCHANGED <<unanswered_questions, now, question_text, triage,
                   similarityVars, statsVars, serverVars>>

\* the session or the query raises: _find_similar_question logs it and returns None
FindFails(w, text) ==
    /\ MayStart(w)
    /\ logger' = [logger EXCEPT ![w] =
           [pc |-> "scanned", question |-> text, similar_question |-> NoItem,
            lookup_failed |-> TRUE, returned |-> "none"]]
    /\ UNCHANGED <<unanswered_questions, now, question_text, triage,
                   similarityVars, statsVars, serverVars>>

\* the with-block of log_unanswered_question: merge or add, commit, return True
Write(w) ==
    /\ logger[w].pc = "scanned"
    /\ unanswered_questions' =
           IF logger[w].similar_question # NoItem
           THEN MergeRow(unanswered_questions, logger[w].similar_question, now)
           ELSE AddRow(unanswered_questions, logger[w].question, now)
    /\ now' = now + 1
    /\ logger' = [logger EXCEPT ![w] = [IdleLogger EXCEPT !.returned = "True"]]
    /\ UNCHANGED <<question_text, triage,
                   similarityVars, statsVars, serverVars>>

SetStatus(i, st) ==
    /\ StatusChanges(unanswered_questions, 1) < MaxStatusChanges
    /\ unanswered_questions' = [unanswered_questions EXCEPT ![i].status = st]
    /\ UNCHANGED <<now, logger, question_text, triage,
                   similarityVars, statsVars, serverVars>>

\* the external workflow: pending -> in_progress -> answered, and rejection of an
\* open item
Assign(i) == unanswered_questions[i].status = "pending" /\ SetStatus(i, "in_progress")
Resolve(i) == unanswered_questions[i].status = "in_progress" /\ SetStatus(i, "answered")
Reject(i) == unanswered_questions[i].status \in OpenStatuses /\ SetStatus(i, "rejected")

NextBacklog ==
    \/ \E w \in Loggers, text \in QuestionPool :
           \E existing_questions \in ScanOrders(OpenRows(unanswered_questions)) :
               FindSimilar(w, text, existing_questions)
    \/ \E w \in Loggers, text \in QuestionPool : FindFails(w, text)
    \/ \E w \in Loggers : Write(w)
    \/ \E i \in 1..Len(unanswered_questions) : Assign(i)
    \/ \E i \in 1..Len(unanswered_questions) : Resolve(i)
    \/ \E i \in 1..Len(unanswered_questions) : Reject(i)

SpecBacklog == InitBacklog /\ [][NextBacklog]_vars

----------------------------------------------------------------------------
(* The triage functions alone: _calculate_priority and _categorize_question on *)
(* one question text                                                           *)

\* the words the question texts are made of: keywords of the priority and the
\* category lists, in upper and lower case, and "happy", which holds "app"
TriageWords ==
    { <<>>,
      <<"U", "R", "G", "E", "N", "T">>,
      <<"L", "o", "g", "i", "n">>,
      <<"s", "y", "n", "c">>,
      <<"p", "l", "a", "n">>,
      <<"h", "a", "p", "p", "y">>,
      <<"d", "a", "t", "a">>,
      <<"e", "r", "r", "o", "r">> }

\* the question texts: two words with a space between
TriagePool == { a \o <<" ">> \o b : a \in TriageWords, b \in TriageWords }

InitTriage ==
    /\ question_text \in TriagePool
    /\ triage = NotTriaged
    /\ existing = <<>>
    /\ similarity = NotCompared
    /\ faq_interactions = <<>>
    /\ faq_file_stats = <<>>
    /\ unanswered_questions = <<>>
    /\ now = 1
    /\ logger = [w \in Loggers |-> IdleLogger]
    /\ reload = ReloadIdle
    /\ disk = <<>>
    /\ faq_content = <<>>
    /\ query = <<>>
    /\ content = <<>>
    /\ score = Zero
    /\ analysis_result = NotRun
    /\ extracted = NotExtracted
    /\ response = NoResponse
    /\ pc = "idle"

\* priority = await self._calculate_priority(question_text)
\* category = await self._categorize_question(question_text)
Classify ==
    /\ triage = NotTriaged
    /\ triage' = [priority |-> calculate_priority(question_text),
                  category |-> categorize_question(question_text)]
    /\ UNCHANGED <<unanswered_questions, now, logger, question_text,
                   similarityVars, statsVars, serverVars>>

NextTriage == Classify

SpecTriage == InitTriage /\ [][NextTriage]_vars

----------------------------------------------------------------------------
(* The similarity check alone: one turn of the loop of _find_similar_question, *)
(* the question text against the question of one existing row                  *)

\* the wordings the texts are rewritings of
BaseTexts ==
    { <<>>,
      <<"a", "b", " ", "c">>,
      <<"a", "b", " ", "d">>,
      <<"c">> }

\* the text in capitals
Shout(t) == [i \in 1..Len(t) |-> UpperChar(t[i])]

\* the text with a full stop inside its first word and a question mark at its end
Punctuate(t) == IF t = <<>> THEN <<"?">> ELSE <<t[1], ".">> \o Tail(t) \o <<"?">>

\* the text with more whitespace: before it, after it and between its words
Spread(t) == <<" ">> \o Replace(t, <<" ">>, <<" ", "\t">>) \o <<NL>>

\* a wording and the texts that differ from it in case, punctuation or whitespace
Rewritings(t) == {t, Shout(t), Punctuate(t), Spread(t)}

\* the question texts compared
SimilarPool == UNION {Rewritings(b) : b \in BaseTexts}

InitSimilar ==
    /\ question_text \in SimilarPool
    /\ existing \in SimilarPool
    /\ similarity = NotCompared
    /\ triage = NotTriaged
    /\ unanswered_questions = <<>>
    /\ now = 1
    /\ logger = [w \in Loggers |-> IdleLogger]
    /\ faq_interactions = <<>>
    /\ faq_file_stats = <<>>
    /\ reload = ReloadIdle
    /\ disk = <<>>
    /\ faq_content = <<>>
    /\ query = <<>>
    /\ content = <<>>
    /\ score = Zero
    /\ analysis_result = NotRun
    /\ extracted = NotExtracted
    /\ response = NoResponse
    /\ pc = "idle"

\* question_words, existing_words, intersection, union, similarity and the test
\* against the threshold
Compare ==
    /\ ~similarity.done
    /\ similarity' =
           [done |-> TRUE,
            value |-> Jaccard(WordSetOf(question_text), WordSetOf(existing)),
            similar |-> IsSimilar(WordSetOf(question_text), WordSetOf(existing))]
    /\ UNCHANGED <<unanswered_questions, now, logger, question_text, triage, existing,
                   statsVars, serverVars>>

NextSimilar == Compare

SpecSimilar == InitSimilar /\ [][NextSimilar]_vars

----------------------------------------------------------------------------
(* The interaction log: log_faq_interaction calls, one after another, against *)
(* the tables faq_interactions and faq_file_stats                             *)

\* the most calls of log_faq_interaction made
MaxInteractions == 3

\* the ticks of the clock in a day, and the last tick modelled
TicksPerDay == 2
MaxTicks == 4

\* datetime.now().date(), as the first tick of the day of t
DateOf(t) == t - ((t - 1) % TicksPerDay)

\* interaction_data["source_file"] and interaction_data["status"]
SourceFiles == {None, NameOf(1), NameOf(2)}
InteractionStatuses == {"success", "no_answer"}

\* a row of faq_interactions (the columns the statistics depend on)
Interaction(t, st, f) == [timestamp |-> t, status |-> st, source_file |-> f]

\* a row of faq_file_stats
FileStat(f, t, total, successful, updated) ==
    [file_name |-> f, timestamp |-> t, total_queries |-> total,
     successful_queries |-> successful, last_updated |-> updated]

\* FaqFileStat.success_rate, in percent
success_rate(stats) ==
    IF stats.total_queries > 0
    THEN Rat(stats.successful_queries * 100, stats.total_queries)
    ELSE Zero

\* the rows the query of _update_faq_file_stats selects: of that file, of today
TodaysStats(rows, file_name, t) ==
    {i \in 1..Len(rows) :
        rows[i].file_name = file_name /\ rows[i].timestamp >= DateOf(t)}

update_faq_file_stats_SuccessOnly(rows, i, file_name, is_success, t) ==
    LET stats == IF i = 0 THEN FileStat(file_name, t, 0, 0, t) ELSE rows[i]
        counted == [stats EXCEPT
                       !.total_queries = IF is_success THEN @ ELSE @ + 1,
                       !.successful_queries = IF is_success THEN @ + 1 ELSE @,
                       !.last_updated = t]
    IN  IF i = 0 THEN Append(rows, counted) ELSE [rows EXCEPT ![i] = counted]

\* _update_faq_file_stats(file_name, is_success) when .first() gave the row i
\* (i = 0: no row, one is created with both counts 0), up to the commit
update_faq_file_stats(rows, i, file_name, is_success, t) ==
    LET stats == IF i = 0 THEN FileStat(file_name, t, 0, 0, t) ELSE rows[i]
        counted == [stats EXCEPT
                       !.total_queries = @ + 1,
                       !.successful_queries = IF is_success THEN @ + 1 ELSE @,
                       !.last_updated = t]
    IN  IF i = 0 THEN Append(rows, counted) ELSE [rows EXCEPT ![i] = counted]

InitStats ==
    /\ InitAnalytics
    /\ reload = ReloadIdle
    /\ disk = <<>>
    /\ faq_content = <<>>
    /\ query = <<>>
    /\ content = <<>>
    /\ score = Zero
    /\ analysis_result = NotRun
    /\ extracted = NotExtracted
    /\ response = NoResponse
    /\ pc = "idle"

\* log_faq_interaction(interaction_data): the interaction is added and committed,
\* then, if it names a source file, the statistics of the file are updated
LogFaqInteraction(source_file, status) ==
    /\ Len(faq_interactions) < MaxInteractions
    /\ faq_interactions' = Append(faq_interactions, Interaction(now, status, source_file))
    /\ IF source_file = None
       THEN faq_file_stats' = faq_file_stats
       ELSE IF TodaysStats(faq_file_stats, source_file, now) = {}
            THEN faq_file_stats' =
                     update_faq_file_stats(faq_file_stats, 0, source_file,
                                           status = "success", now)
            ELSE \E i \in TodaysStats(faq_file_stats, source_file, now) :
                     faq_file_stats' =
                         update_faq_file_stats(faq_file_stats, i, source_file,
                                               status = "success", now)
    /\ UNCHANGED <<unanswered_questions, now, logger, question_text, triage,
                   similarityVars, serverVars>>

\* time passes
Tick ==
    /\ now < MaxTicks
    /\ now' = now + 1
    /\ UNCHANGED <<unanswered_questions, logger, question_text, triage,
                   similarityVars, statsVars, serverVars>>

NextStats ==
    \/ \E source_file \in SourceFiles, status \in InteractionStatuses :
           LogFaqInteraction(source_file, status)
    \/ Tick

SpecStats == InitStats /\ [][NextStats]_vars

----------------------------------------------------------------------------
(* Properties of the scorer (SpecScore) *)

QueryWords == Words(Lower(query))
Overlap == Cardinality(QueryWords \cap Words(Lower(content)))
PhraseFound == Contains(Lower(content), Lower(query))

\* C1: the relevance score of any query against any content lies in [0, 1],
\* also when the phrase boost is added to a full word overlap.
C1_ScoreInUnitInterval ==
    pc = "scored" =>
        /\ score.den > 0
        /\ score.num >= 0
        /\ score.num <= score.den

\* C1 witness: a scored pair where every query word is in the content and the
\* query is a substring of it, so that 1.0 + 0.3 is what the cap cuts down.
C1_Witness ==
    /\ pc = "scored"
    /\ QueryWords # {}
    /\ Overlap = Cardinality(QueryWords)
    /\ PhraseFound
    /\ RatEq(score, One)

\* min(1.0, overlap / n + b) in units of 1 / (10 n), b = 0.3 iff the lowercased
\* query is a substring of the lowercased content
ExpectedScoreUnits ==
    LET n == Cardinality(QueryWords)
        raw == 10 * Overlap + (IF PhraseFound THEN PhraseBoostTenths * n ELSE 0)
    IN  IF raw > 10 * n THEN 10 * n ELSE raw

\* C2: for a query with at least one word, the score is
\* min(1.0, |query words in content| / |query words| + b), with b = 0.3 exactly
\* when the lowercased query is a substring of the lowercased content, else 0.
C2_ScoreFormula ==
    (pc = "scored" /\ QueryWords # {}) =>
        score.num * 10 * Cardinality(QueryWords) = ExpectedScoreUnits * score.den

\* C2 witness: the boost is earned through lowercasing only (query and content
\* differ in case) and is not eaten by the cap.
C2_Witness ==
    /\ pc = "scored"
    /\ QueryWords # {}
    /\ PhraseFound
    /\ ~Contains(content, query)
    /\ Overlap < Cardinality(QueryWords)
    /\ RatGt(score, Rat(Overlap, Cardinality(QueryWords)))

\* C25: a query with no token (empty, or punctuation only) scores exactly 0
\* against every content, also when the query text occurs in the content, and
\* so does not pass the matcher's test for an answer.
C25_NoTokenQueryScoresZero ==
    (pc = "scored" /\ QueryWords = {}) =>
        /\ RatEq(score, Zero)
        /\ ~GoodEnough(score)

\* C25 witness: a punctuation-only query scored 0 against a content it occurs in
C25_Witness ==
    /\ pc = "scored"
    /\ query # <<>>
    /\ QueryWords = {}
    /\ PhraseFound
    /\ RatEq(score, Zero)

----------------------------------------------------------------------------
(* Properties of the matcher and the extractor (SpecMatch) *)

Half == Rat(AnswerThresholdTenths, 10)

\* C3: the decision is ANSWER exactly when the best file score is strictly
\* greater than 0.5; a best score of 0.5 or less gives NO_ANSWER.
C3_AnswerIffAboveHalf ==
    pc = "analyzed" =>
        /\ analysis_result.decision \in {"ANSWER", "NO_ANSWER"}
        /\ analysis_result.decision = "ANSWER" <=> RatGt(analysis_result.analysis.score, Half)

\* C3 witness: an analysis whose best file score is exactly 0.5, answered NO_ANSWER.
C3_Witness ==
    /\ pc = "analyzed"
    /\ RatEq(analysis_result.analysis.score, Half)
    /\ analysis_result.decision = "NO_ANSWER"

\* the score of a file: the scorer on the query and the file's entries as they are
\* laid out for the matcher
FileScore(q, f) ==
    calculate_relevance_score(Lower(q), Lower(Join(EntryPieces(f.qa_pairs, 1), <<NL>>)))

\* the first file, in knowledge-base order, whose score no other file exceeds
FirstMaxFile(files, q) ==
    CHOOSE k \in 1..Len(files) :
        /\ \A j \in 1..Len(files) : ~RatGt(FileScore(q, files[j]), FileScore(q, files[k]))
        /\ \A j \in 1..(k - 1) : RatGt(FileScore(q, files[k]), FileScore(q, files[j]))

\* C4: the file the matcher selects is the file with the maximum score over all
\* files of the knowledge base, the first of them in iteration order on a tie:
\* the best score it reports is that maximum, and when the maximum is above the
\* answer threshold the file it answers from is that file.
C4_SelectsFirstMaxFile ==
    (pc = "analyzed" /\ faq_content # <<>>) =>
        LET m == FirstMaxFile(faq_content, query)
        IN  /\ RatEq(analysis_result.analysis.score, FileScore(query, faq_content[m]))
            /\ RatGt(FileScore(query, faq_content[m]), Half)
                  => /\ analysis_result.decision = "ANSWER"
                     /\ analysis_result.best_match_file = faq_content[m].name

\* The selection among the files whose header line gives the file name back
\* (no parenthesis in the name): there the first maximum is what is selected.
SelectsFirstMaxAmongPlainNames ==
    (/\ pc = "analyzed"
     /\ faq_content # <<>>
     /\ \A k \in 1..Len(faq_content) : faq_content[k].name = NameOf(k)
     /\ RatGt(FileScore(query, faq_content[FirstMaxFile(faq_content, query)]), Zero))
    => /\ analysis_result.best_match_file = faq_content[FirstMaxFile(faq_content, query)].name
       /\ RatEq(analysis_result.analysis.score,
                FileScore(query, faq_content[FirstMaxFile(faq_content, query)]))

\* C5: with decision ANSWER the label is high for a best score above 0.8, medium
\* for a score above 0.6 and at most 0.8, low otherwise; with NO_ANSWER it is low.
C5_RelevanceLabel ==
    pc = "analyzed" =>
        LET s == analysis_result.analysis.score
            label == analysis_result.relevance_score
        IN  IF analysis_result.decision = "ANSWER"
            THEN /\ RatGt(s, Rat(HighThresholdTenths, 10)) => label = "high"
                 /\ (RatGt(s, Rat(MediumThresholdTenths, 10))
                       /\ RatLe(s, Rat(HighThresholdTenths, 10))) => label = "medium"
                 /\ RatLe(s, Rat(MediumThresholdTenths, 10)) => label = "low"
            ELSE label = "low"

\* C5 witness: an ANSWER whose best score is exactly 0.8, labelled medium.
C5_Witness ==
    /\ pc = "analyzed"
    /\ analysis_result.decision = "ANSWER"
    /\ RatEq(analysis_result.analysis.score, Rat(HighThresholdTenths, 10))
    /\ analysis_result.relevance_score = "medium"

\* C6: whenever the decision is NO_ANSWER, the result has both its answer and
\* its file unset, also when some file scored above 0 but not above 0.5.
C6_NoAnswerLeavesFileUnset ==
    (pc = "analyzed" /\ analysis_result.decision = "NO_ANSWER") =>
        /\ analysis_result.answer = None
        /\ analysis_result.best_match_file = None

\* the score of an entry: the scorer on the query and the entry's question text
EntryScore(q, pair) == calculate_relevance_score(Lower(q), Lower(pair.question))

\* the first entry, in file order, whose score no other entry exceeds
FirstMaxEntry(pairs, q) ==
    CHOOSE i \in 1..Len(pairs) :
        /\ \A j \in 1..Len(pairs) : ~RatGt(EntryScore(q, pairs[j]), EntryScore(q, pairs[i]))
        /\ \A j \in 1..(i - 1) : RatGt(EntryScore(q, pairs[i]), EntryScore(q, pairs[j]))

\* the entries of the file whose section the extractor was given
ExtractedFrom == faq_content[extracted.section].qa_pairs

\* C7: the extractor scores the query against each entry's question text only
\* and returns the answer of the entry with the maximum score, the first such
\* entry in file order when several share the maximum.
C7_ExtractsFirstMaxEntry ==
    pc = "extracted" =>
        extracted.answer = ExtractedFrom[FirstMaxEntry(ExtractedFrom, query)].answer

\* C7 witness: a later entry alone has the maximum question score, and its answer
\* differs from the first entry's.
C7_Witness ==
    /\ pc = "extracted"
    /\ Len(ExtractedFrom) >= 2
    /\ FirstMaxEntry(ExtractedFrom, query) = 2
    /\ ExtractedFrom[1].answer # ExtractedFrom[2].answer
    /\ extracted.answer = ExtractedFrom[2].answer

\* C8: if every entry of the file scores 0 against the query the extractor
\* returns the first entry's answer; a file with exactly one entry returns that
\* entry's answer for any query.
C8_FallbackToFirstEntry ==
    pc = "extracted" =>
        /\ (\A i \in 1..Len(ExtractedFrom) : RatEq(EntryScore(query, ExtractedFrom[i]), Zero))
              => extracted.answer = ExtractedFrom[1].answer
        /\ Len(ExtractedFrom) = 1 => extracted.answer = ExtractedFrom[1].answer

\* C8 witness: a query with words, none of them in any question of a two-entry
\* file, answered with the first entry's answer.
C8_Witness ==
    /\ pc = "extracted"
    /\ Words(Lower(query)) # {}
    /\ Len(ExtractedFrom) >= 2
    /\ \A i \in 1..Len(ExtractedFrom) : RatEq(EntryScore(query, ExtractedFrom[i]), Zero)
    /\ extracted.answer = ExtractedFrom[1].answer

RECURSIVE EntryTexts(_, _)
\* the question and answer texts of the entries, in file order
EntryTexts(qa_pairs, i) ==
    IF i > Len(qa_pairs) THEN <<>>
    ELSE <<qa_pairs[i].question, qa_pairs[i].answer>> \o EntryTexts(qa_pairs, i + 1)

\* the scorer on the query and the concatenation of the file's entries alone
PlainScore(q, f) ==
    calculate_relevance_score(Lower(q), Lower(Join(EntryTexts(f.qa_pairs, 1), <<NL>>)))

\* C23: the score the matcher gives a file is the scorer's on the query and the
\* file's entries (their question and answer texts) only, so that a token in no
\* entry of the file cannot raise it: the best score reported is no greater than
\* the entries-only score of some file of the knowledge base.
C23_FileScoreFromEntriesOnly ==
    (/\ pc = "analyzed"
     /\ faq_content # <<>>
     /\ \A k \in 1..Len(faq_content) : faq_content[k].name = NameOf(k))
    => \E k \in 1..Len(faq_content) :
           RatLe(analysis_result.analysis.score, PlainScore(query, faq_content[k]))

\* the names of the files of the knowledge base
FileNames == { faq_content[k].name : k \in 1..Len(faq_content) }

\* the answer texts of the entries of the file of that name
AnswersOf(name) ==
    UNION { { faq_content[k].qa_pairs[i].answer : i \in 1..Len(faq_content[k].qa_pairs) } :
            k \in { j \in 1..Len(faq_content) : faq_content[j].name = name } }

\* C28: whenever the decision is ANSWER, the result names a file of the knowledge
\* base, and its answer is set and is the answer text of an entry of that file.
C28_AnswerFromNamedFile ==
    (pc = "analyzed" /\ analysis_result.decision = "ANSWER") =>
        /\ analysis_result.best_match_file \in FileNames
        /\ analysis_result.answer # None
        /\ analysis_result.answer \in AnswersOf(analysis_result.best_match_file)

----------------------------------------------------------------------------
(* Properties of the server (Spec) *)

\* C9: an empty or whitespace-only query gets the "Query cannot be empty" error
\* before the knowledge base is touched or any scoring is run, never no_answer.
C9_BlankQueryRejectedFirst ==
    [][\A q \in ServerQueries :
          (IsBlank(q) /\ HandleQuery(q)) =>
              /\ response' = EmptyQueryError
              /\ response'.status # "no_answer"
              /\ analysis_result' = NotRun
              /\ faq_content' = faq_content]_vars

\* C9 witness: a whitespace-only query rejected while the knowledge base is
\* empty and the directory holds a loadable file (a load would have filled it).
C9_Witness ==
    /\ pc = "responded"
    /\ query # <<>>
    /\ IsBlank(query)
    /\ response = EmptyQueryError
    /\ faq_content = <<>>
    /\ load_all_faqs(disk) # <<>>

\* C10: a non-empty query against a knowledge base with zero files comes back
\* as a no_answer outcome with a rationale, not as an error.
C10_NoFilesIsNoAnswer ==
    (pc = "responded" /\ ~IsBlank(query) /\ faq_content = <<>>) =>
        /\ response.status = "no_answer"
        /\ response.reasoning.kind = "could_not_find"

\* C16: a reload is atomic to the matching passes: no pass starts while a reload
\* has emptied the knowledge base and not yet rebuilt it, so a pass sees the
\* knowledge base of the last finished load (or loads it whole itself), and a
\* finished reload leaves every loadable file of the directory in it.
C16_ReloadIsAtomicToQueries ==
    [][/\ \A q \in ServerQueries :
             HandleQuery(q) =>
                 /\ reload.stage = "idle"
                 /\ faq_content' \in {faq_content, load_all_faqs(disk)}
       /\ ReloadFaqs =>
             /\ faq_content' = reload_faqs(faq_content, disk).faq_content
             /\ response'.files_changed = Len(faq_content') - reload.old_count]_vars

\* C16 witness: a reload under way over a knowledge base that held a file, with
\* the knowledge base partially rebuilt (one file of two entered).
C16_Witness ==
    /\ pc = "reloading"
    /\ reload.stage = "loading"
    /\ reload.old_count >= 1
    /\ Len(faq_content) >= 1
    /\ Len(faq_content) < Len(load_all_faqs(reload.faq_files))

\* C24: answering a query never changes the knowledge base: after a handle_query
\* call the loaded files and their entries are what they were before it.
C24_QueryLeavesKnowledgeBase ==
    [][\A q \in ServerQueries : HandleQuery(q) => faq_content' = faq_content]_vars

\* the files of a sequence of files
FilesIn(files) == {files[i] : i \in 1..Len(files)}

\* C26: a completed reload replaces the knowledge base: it then holds exactly the
\* files now in the directory that parse to at least one entry (a file removed
\* from the directory is gone from it), and files_changed is the new number of
\* files minus the number before the reload.
C26_ReloadReplacesKnowledgeBase ==
    [][/\ ReloadStart => reload'.old_count = Len(faq_content)
       /\ ReloadFaqs =>
             /\ FilesIn(faq_content') = {f \in FilesIn(disk) : f.qa_pairs # <<>>}
             /\ Len(faq_content') = Cardinality(FilesIn(faq_content'))
             /\ response'.status = "success"
             /\ response'.files_loaded = Len(faq_content')
             /\ response'.files_changed = Len(faq_content') - reload.old_count]_vars

\* C26 witness: a reload completed after a loaded file was removed, with a file
\* in the directory that has no entry
C26_Witness ==
    /\ pc = "reloaded"
    /\ response.files_changed < 0
    /\ \E j \in 1..Len(disk) : disk[j].qa_pairs = <<>>
    /\ Len(faq_content) < Len(disk)

\* C29: every handle_query call returns a response whose status is one of
\* success, no_answer and error, also when its body raises; the status is
\* success exactly when the engine was run and decided ANSWER, and the response
\* then carries the engine's answer, and the file it selected as source_file.
C29_HandleQueryStatus ==
    [][\A q \in ServerQueries :
          HandleQuery(q) =>
              /\ pc' = "responded"
              /\ response'.status \in {"success", "no_answer", "error"}
              /\ response'.status = "success" <=> analysis_result'.decision = "ANSWER"
              /\ response'.status = "success" =>
                     /\ response'.answer = analysis_result'.answer
                     /\ response'.source_file = analysis_result'.best_match_file]_vars

\* C29 witness: a query answered with success from a file of the knowledge base.
C29_Witness ==
    /\ pc = "responded"
    /\ response.status = "success"
    /\ analysis_result.decision = "ANSWER"
    /\ response.answer = analysis_result.answer
    /\ response.answer # None
    /\ response.source_file \in FileNames

----------------------------------------------------------------------------
(* Properties of the backlog (SpecBacklog) *)

\* the Jaccard similarity of a text to the question of a row
Sim(text, row) == Jaccard(WordSet(text), WordSet(row.question))

\* similarity strictly above 0.7
Above(text, row) == 10 * Sim(text, row).num > SimilarityThresholdTenths * Sim(text, row).den

IsOpen(row) == row.status \in {"pending", "in_progress"}

\* the open rows of the table that are above the threshold for the text
SimilarOpen(text) ==
    {i \in 1..Len(unanswered_questions) :
        IsOpen(unanswered_questions[i]) /\ Above(text, unanswered_questions[i])}

\* the first row of a scan whose similarity to the text no row of the scan exceeds
FirstGreatest(text, scan) ==
    CHOOSE k \in 1..Len(scan) :
        /\ \A j \in 1..Len(scan) : ~RatGt(Sim(text, scan[j]), Sim(text, scan[k]))
        /\ \A j \in 1..(k - 1) : RatGt(Sim(text, scan[k]), Sim(text, scan[j]))

\* no two rows of a scan are above the threshold for each other
NoNearDuplicates(scan) ==
    \A i, j \in 1..Len(scan) : i # j => ~Above(scan[i].question, scan[j])

\* C11: the deduplicator scans all open items without short-circuiting; the merge
\* target is the item of strictly greatest similarity to the new question, the
\* first such in scan order, if that similarity is above 0.7 - not merely the
\* first item above 0.7.  Stated for the backlogs whose open items are no
\* near-duplicates of each other.
C11_MergeTargetIsGreatest ==
    [][\A w \in Loggers, text \in QuestionPool :
         \A scan \in ScanOrders(OpenRows(unanswered_questions)) :
            (FindSimilar(w, text, scan) /\ NoNearDuplicates(scan)) =>
                logger'[w].similar_question =
                    IF scan # <<>> /\ Above(text, scan[FirstGreatest(text, scan)])
                    THEN scan[FirstGreatest(text, scan)]
                    ELSE NoItem]_vars

\* the lookup of a call: it starts the call w on the text
Lookup(w, text) ==
    /\ logger[w].pc = "idle"
    /\ logger'[w].question = text
    /\ \/ \E scan \in ScanOrders(OpenRows(unanswered_questions)) :
              FindSimilar(w, text, scan)
       \/ FindFails(w, text)

\* the rows other than the i-th are as they were, and no row is added
OnlyRowChanged(i) ==
    /\ Len(unanswered_questions') = Len(unanswered_questions)
    /\ \A j \in 1..Len(unanswered_questions) :
           j # i => unanswered_questions'[j] = unanswered_questions[j]

\* C12: when some open item is above 0.7 for the incoming question, logging the
\* question increments exactly that one item's frequency by 1, sets its last-seen
\* time to now, and creates no new item.
C12_MergeIncrementsOneItem ==
    [][\A w \in Loggers :
         /\ \A text \in QuestionPool :
                (Lookup(w, text) /\ SimilarOpen(text) # {})
                    => logger'[w].similar_question.id \in SimilarOpen(text)
         /\ (Write(w) /\ logger[w].similar_question # NoItem)
                => LET i == logger[w].similar_question.id
                   IN  /\ OnlyRowChanged(i)
                       /\ unanswered_questions'[i] =
                              [unanswered_questions[i] EXCEPT
                                  !.frequency = @ + 1, !.last_asked = now]]_vars

\* The merge when nothing came between the lookup and the write (the row is
\* still as the lookup read it): then it is the increment C12 describes.
MergeIncrementsWhenUndisturbed ==
    [][\A w \in Loggers :
         (/\ Write(w)
          /\ logger[w].similar_question # NoItem
          /\ unanswered_questions[logger[w].similar_question.id] = logger[w].similar_question)
            => LET i == logger[w].similar_question.id
               IN  /\ OnlyRowChanged(i)
                   /\ unanswered_questions'[i] =
                          [unanswered_questions[i] EXCEPT
                              !.frequency = @ + 1, !.last_asked = now]]_vars

\* C13: when no open item is strictly above 0.7 for the incoming question (a best
\* similarity of exactly 0.7 and an empty backlog included), exactly one new item
\* is created, with frequency 1, status pending, and the priority and category
\* the triage functions give for the raw question text; no existing item is
\* modified.
C13_NoSimilarCreatesOneItem ==
    [][\A w \in Loggers :
         /\ \A text \in QuestionPool :
                (Lookup(w, text) /\ SimilarOpen(text) = {})
                    => logger'[w].similar_question = NoItem
         /\ (Write(w) /\ logger[w].similar_question = NoItem)
                => /\ Len(unanswered_questions') = Len(unanswered_questions) + 1
                   /\ SubSeq(unanswered_questions', 1, Len(unanswered_questions))
                          = unanswered_questions
                   /\ LET new == unanswered_questions'[Len(unanswered_questions')]
                      IN  /\ new.question = logger[w].question
                          /\ new.frequency = 1
                          /\ new.status = "pending"
                          /\ new.priority = calculate_priority(logger[w].question)
                          /\ new.category = categorize_question(logger[w].question)]_vars

\* C13 witness: two open items whose similarity is exactly 0.7, each logged once,
\* the later one filed under its own triage.
C13_Witness ==
    \E i, j \in 1..Len(unanswered_questions) :
        /\ i < j
        /\ IsOpen(unanswered_questions[i]) /\ IsOpen(unanswered_questions[j])
        /\ 10 * Sim(unanswered_questions[j].question, unanswered_questions[i]).num
             = SimilarityThresholdTenths
                 * Sim(unanswered_questions[j].question, unanswered_questions[i]).den
        /\ unanswered_questions[j].frequency = 1
        /\ unanswered_questions[j].status = "pending"
        /\ unanswered_questions[j].priority # unanswered_questions[i].priority
        /\ \A w \in Loggers : logger[w].pc = "idle"

\* C14: once the calls of log_unanswered_question have completed, whatever status
\* changes came in between, no two items with status pending or in_progress have
\* texts of similarity above 0.7.
C14_NoOpenNearDuplicates ==
    (\A w \in Loggers : logger[w].pc = "idle") =>
        \A i, j \in 1..Len(unanswered_questions) :
            (i # j /\ IsOpen(unanswered_questions[i]) /\ IsOpen(unanswered_questions[j]))
                => ~Above(unanswered_questions[i].question, unanswered_questions[j])

\* C15: when two submissions of the same new question run concurrently, each its
\* scan and then its write, at most one new item is created: no call whose lookup
\* worked adds an item while an open item above 0.7 for its question exists.
C15_ConcurrentSubmissionsCreateOne ==
    [][\A w \in Loggers :
         (/\ Write(w)
          /\ ~logger[w].lookup_failed
          /\ Len(unanswered_questions') > Len(unanswered_questions))
            => SimilarOpen(logger[w].question) = {}]_vars

\* C17: a failure while the open items are read reaches the caller as an error,
\* not as "no duplicate found": the call does not return True and no item is
\* created for it.
C17_LookupFailureSurfaced ==
    [][\A w \in Loggers :
         (Write(w) /\ logger[w].lookup_failed)
            => /\ logger'[w].returned # "True"
               /\ unanswered_questions' = unanswered_questions]_vars

\* C20: the deduplicator never merges into an item whose status is answered or
\* rejected and never changes its frequency or last-seen time; a question similar
\* to closed items only finds no duplicate, so that a new pending item is created.
C20_ClosedItemsUntouched ==
    [][/\ \A i \in 1..Len(unanswered_questions) :
            ~IsOpen(unanswered_questions[i])
                => /\ unanswered_questions'[i].frequency = unanswered_questions[i].frequency
                   /\ unanswered_questions'[i].last_asked = unanswered_questions[i].last_asked
       /\ \A w \in Loggers, text \in QuestionPool :
            (Lookup(w, text) /\ SimilarOpen(text) = {})
                => logger'[w].similar_question = NoItem]_vars

\* The lookup by itself keeps to the open items: the row it returns is pending or
\* in_progress in the table it read.
LookupSkipsClosedItems ==
    [][\A w \in Loggers, text \in QuestionPool :
         (Lookup(w, text) /\ logger'[w].similar_question # NoItem)
            => /\ IsOpen(logger'[w].similar_question)
               /\ unanswered_questions[logger'[w].similar_question.id]
                      = logger'[w].similar_question]_vars

\* C21: a merge leaves the status, priority and category of the item it merges
\* into as they stand in the table when it writes: a status the workflow has set
\* since the lookup is not overwritten with the value the lookup read.
C21_MergeKeepsWorkflowColumns ==
    [][\A w \in Loggers :
         (Write(w) /\ logger[w].similar_question # NoItem)
            => LET i == logger[w].similar_question.id
               IN  /\ unanswered_questions'[i].status = unanswered_questions[i].status
                   /\ unanswered_questions'[i].priority = unanswered_questions[i].priority
                   /\ unanswered_questions'[i].category = unanswered_questions[i].category]_vars

----------------------------------------------------------------------------
(* Properties of the triage functions (SpecTriage) *)

\* some keyword of the list occurs in the text, whatever the case of the text
Hits(keywords) ==
    \E k \in 1..Len(keywords) : Contains(Lower(question_text), keywords[k])

\* C18: the priority is decided by the first keyword set, in the order urgent,
\* high, medium, that has a keyword occurring as a case-insensitive substring of
\* the raw question text; an urgent keyword makes the text urgent whatever else
\* it contains, and a text matching no set is low.
C18_PriorityByFirstKeywordSet ==
    triage # NotTriaged =>
        /\ Hits(urgent_keywords) => triage.priority = "urgent"
        /\ (~Hits(urgent_keywords) /\ Hits(high_keywords)) => triage.priority = "high"
        /\ (~Hits(urgent_keywords) /\ ~Hits(high_keywords) /\ Hits(medium_keywords))
              => triage.priority = "medium"
        /\ (~Hits(urgent_keywords) /\ ~Hits(high_keywords) /\ ~Hits(medium_keywords))
              => triage.priority = "low"

\* C18 witness: a text holding an urgent keyword in upper case next to a high
\* keyword, triaged urgent.
C18_Witness ==
    /\ triage.priority = "urgent"
    /\ Hits(high_keywords)
    /\ ~(\E k \in 1..Len(urgent_keywords) : Contains(question_text, urgent_keywords[k]))

\* the six categories with keywords, in their fixed order
CategoryOrder ==
    <<"account_management", "billing_payments", "technical_issues", "device_setup",
      "mobile_app", "privacy_security">>

\* the positions, in that order, of the categories a keyword of which is in the text
CategoryHits == {k \in 1..Len(CategoryOrder) : Hits(categories[k].keywords)}

\* C19: the category is the first of account_management, billing_payments,
\* technical_issues, device_setup, mobile_app, privacy_security with a keyword
\* occurring as a case-insensitive substring of the text; general if there is none.
C19_CategoryByFirstKeywordSet ==
    triage # NotTriaged =>
        /\ \A k \in 1..Len(CategoryOrder) : categories[k].category = CategoryOrder[k]
        /\ IF CategoryHits = {}
           THEN triage.category = "general"
           ELSE triage.category =
                    CategoryOrder[CHOOSE k \in CategoryHits : \A j \in CategoryHits : k <= j]

\* C19 witness: a text with a mobile_app keyword inside a longer word ("app" in
\* "happy") and a privacy_security keyword, filed under mobile_app.
C19_Witness ==
    /\ triage.category = "mobile_app"
    /\ Hits(categories[6].keywords)
    /\ \A j \in 1..Len(categories[5].keywords) :
           categories[5].keywords[j] \notin Words(Lower(question_text))

----------------------------------------------------------------------------
(* Properties of the similarity check (SpecSimilar) *)

\* C22: the similarity is the same with the two word sets exchanged, lies in
\* [0,1], is 1 for one and the same non-empty set, and with an empty union it is
\* 0 and the row is not taken as similar.
C22_JaccardSymmetricBounded ==
    similarity.done =>
        LET A == WordSetOf(question_text)
            B == WordSetOf(existing)
        IN  /\ similarity.value = Jaccard(B, A)
            /\ similarity.similar = IsSimilar(B, A)
            /\ similarity.value.den > 0
            /\ 0 <= similarity.value.num
            /\ similarity.value.num <= similarity.value.den
            /\ (A = B /\ A # {}) => RatEq(similarity.value, One)
            /\ (A \cup B = {}) => (RatEq(similarity.value, Zero) /\ ~similarity.similar)

\* C22 witness: two word sets of different sizes that share a word, compared
C22_Witness ==
    /\ similarity.done
    /\ Cardinality(WordSetOf(question_text)) < Cardinality(WordSetOf(existing))
    /\ similarity.value.num > 0
    /\ similarity.value.num < similarity.value.den

\* the two texts are rewritings of one wording
SameWording(a, b) == \E base \in BaseTexts : a \in Rewritings(base) /\ b \in Rewritings(base)

\* C27: two texts that differ only in letter case, in characters outside
\* letters / digits / whitespace or in the amount of whitespace have the same word
\* set, similarity 1 to each other when it is not empty, and the same outcome of
\* the similarity test against every existing question.
C27_DecisionOnNormalizedText ==
    (similarity.done /\ SameWording(question_text, existing)) =>
        /\ WordSetOf(question_text) = WordSetOf(existing)
        /\ WordSetOf(question_text) # {} =>
               (RatEq(similarity.value, One) /\ similarity.similar)
        /\ \A row \in SimilarPool :
               IsSimilar(WordSetOf(question_text), WordSetOf(row))
                   = IsSimilar(WordSetOf(existing), WordSetOf(row))

\* C27 witness: a text in capitals compared with its punctuated rewriting
C27_Witness ==
    /\ similarity.done
    /\ similarity.similar
    /\ \E base \in BaseTexts :
           /\ question_text = Shout(base)
           /\ existing = Punctuate(base)
           /\ question_text # base
           /\ Lower(question_text) # Lower(existing)

----------------------------------------------------------------------------
(* Properties of the interaction log (SpecStats) *)

RECURSIVE TotalOf(_, _, _)
\* the total_queries of the rows of a file, summed
TotalOf(rows, f, i) ==
    IF i > Len(rows) THEN 0
    ELSE TotalOf(rows, f, i + 1) + (IF rows[i].file_name = f THEN rows[i].total_queries ELSE 0)

RECURSIVE SuccessfulOf(_, _, _)
\* the successful_queries of the rows of a file, summed
SuccessfulOf(rows, f, i) ==
    IF i > Len(rows) THEN 0
    ELSE SuccessfulOf(rows, f, i + 1)
         + (IF rows[i].file_name = f THEN rows[i].successful_queries ELSE 0)

====
